---- MODULE Spec2Model ----
(***************************************************************************)
(* The PDF -> Markdown pipeline of src/src/result.ts: main and its six     *)
(* stages getCliArgs, getEnvs, ensureDir, processOcr, uploadImages and     *)
(* generateMarkdown, one action per piece of code between two suspension   *)
(* points, with the file system, the OCR service and the object store as   *)
(* the nondeterministic environment.                                       *)
(*                                                                         *)
(* A text is a sequence of pieces: the newline "\n" and the non-empty      *)
(* strings the code interpolates; concatenation of texts is \o.            *)
(***************************************************************************)
EXTENDS Integers, Sequences, FiniteSets, TLC

\* ------------------------------------------------------------- bounds
MaxPages == 2
MaxImages == 3

\* ------------------------------------------------------- error classes
\* The messages of the source are Japanese; each is rendered here by its
\* English reading, one distinct string per message of the source.
None == [tag |-> "none"]

ValidationError(message) ==
  [name |-> "ValidationError", message |-> "ValidationError: " \o message]

NotFoundError(entityName, id) ==
  [name |-> "NotFoundError",
   message |-> entityName \o "(ID: " \o id \o ") not found"]

SystemError(message) ==
  [name |-> "SystemError", message |-> "SystemError: " \o message]

\* neverthrow's ok(value) and err(error); Thrown is a rejected promise.
Ok(value) == [tag |-> "ok", value |-> value]
Err(error) == [tag |-> "err", error |-> error]
Thrown(error) == [tag |-> "throw", error |-> error]

\* ------------------------------------------------------ the inputs
InPath == "in.pdf"
OutPath == "out"
Paths == {InPath, OutPath}
PathKinds == {"missing", "file", "dir"}

\* Deno.args: the command lines tried.
ArgVectors ==
  { <<>>,
    <<"-i", InPath>>,
    <<"-o", OutPath>>,
    <<"-i", InPath, "-o", OutPath>>,
    <<"--outDir", OutPath, "--input", InPath>>,
    <<"-i", "", "-o", OutPath>>,
    <<"-i", InPath, "-o", OutPath, "--bogus">>,
    <<"-i", InPath, "-o", OutPath, "extra.pdf">>,
    <<"-o", OutPath, "-i">> }

InputFlags == {"-i", "--input"}
OutDirFlags == {"-o", "--outDir"}
\* Tokens that parseArgs reads as options (they start with "-").
OptionLike == InputFlags \cup OutDirFlags \cup {"--bogus"}

EnvNames ==
  <<"MISTRAL_OCR_API_KEY", "R2_S3_URL", "R2_ACCESS_KEY_ID",
    "R2_SECRET_ACCESS_KEY", "R2_BUCKET_NAME", "R2_PUBLIC_URL">>
EnvNameSet == {EnvNames[i] : i \in 1..Len(EnvNames)}
Undefined == "<undefined>"
EnvSet(n) == IF n = "R2_PUBLIC_URL" THEN "https://cdn.example" ELSE "v-" \o n
\* The process environment: each variable unset, empty or set.
Environments ==
  { e \in [EnvNameSet -> {Undefined, "", "set"}] : TRUE }
EnvGet(e, n) == IF e[n] = "set" THEN EnvSet(n) ELSE e[n]
\* JavaScript !x for a string or undefined.
Falsy(x) == x = Undefined \/ x = ""

\* ------------------------------------------------------------ parseArgs
TypeError(message) == [name |-> "TypeError", message |-> message]

RECURSIVE ParseFrom(_, _, _)
ParseFrom(a, i, values) ==
  IF i > Len(a) THEN Ok(values)
  ELSE IF a[i] \in InputFlags \cup OutDirFlags
    THEN IF i = Len(a) \/ a[i + 1] \in OptionLike
           THEN Thrown(TypeError("ERR_PARSE_ARGS_INVALID_OPTION_VALUE"))
           ELSE ParseFrom(a, i + 2,
                  IF a[i] \in InputFlags
                    THEN [values EXCEPT !.input = a[i + 1]]
                    ELSE [values EXCEPT !.outDir = a[i + 1]])
  ELSE IF a[i] \in OptionLike
    THEN Thrown(TypeError("ERR_PARSE_ARGS_UNKNOWN_OPTION"))
    ELSE Thrown(TypeError("ERR_PARSE_ARGS_UNEXPECTED_POSITIONAL"))

\* node:util parseArgs, strict, string options input/i and outDir/o,
\* allowPositionals false.
parseArgs(a) == ParseFrom(a, 1, [input |-> Undefined, outDir |-> Undefined])

\* ----------------------------------------------------------- getCliArgs
\* Deno.statSync(p): the kind of p, "missing" when it throws.
statSync(kinds, p) == IF p \in DOMAIN kinds THEN kinds[p] ELSE "missing"

\* getCliArgs without the isDirectory test of line 68.
getCliArgs_NoDirectoryCheck(a, kinds) ==
  LET parsed == parseArgs(a) IN
  IF parsed.tag = "throw" THEN parsed
  ELSE LET input == parsed.value.input
           outDir == parsed.value.outDir IN
    IF Falsy(input) THEN Err(ValidationError("args.input not found"))
    ELSE IF Falsy(outDir)
      THEN Err(ValidationError("args.outDir not found"))
    ELSE IF statSync(kinds, input) = "missing"
      THEN Err(ValidationError("args.input does not exist"))
    ELSE IF statSync(kinds, input) # "file"
      THEN Err(ValidationError("args.input is not a file"))
    ELSE IF statSync(kinds, outDir) = "missing"
      THEN Err(ValidationError("args.outDir does not exist"))
    ELSE Ok([input |-> input, outDir |-> outDir])

getCliArgs(a, kinds) ==
  LET parsed == parseArgs(a) IN
  IF parsed.tag = "throw" THEN parsed
  ELSE LET input == parsed.value.input
           outDir == parsed.value.outDir IN
    IF Falsy(input) THEN Err(ValidationError("args.input not found"))
    ELSE IF Falsy(outDir)
      THEN Err(ValidationError("args.outDir not found"))
    ELSE IF statSync(kinds, input) = "missing"
      THEN Err(ValidationError("args.input does not exist"))
    ELSE IF statSync(kinds, input) # "file"
      THEN Err(ValidationError("args.input is not a file"))
    ELSE IF statSync(kinds, outDir) = "missing"
      THEN Err(ValidationError("args.outDir does not exist"))
    ELSE IF statSync(kinds, outDir) # "dir"
      THEN Err(ValidationError("args.outDir is not a directory"))
    ELSE Ok([input |-> input, outDir |-> outDir])

\* -------------------------------------------------------------- getEnvs
RECURSIVE FirstMissing(_, _)
FirstMissing(e, i) ==
  IF i > Len(EnvNames) THEN 0
  ELSE IF Falsy(EnvGet(e, EnvNames[i])) THEN i
  ELSE FirstMissing(e, i + 1)

\* getEnvs without the test of MISTRAL_OCR_API_KEY of line 92.
getEnvs_OcrKeyUnchecked(e) ==
  LET m == FirstMissing(e, 2) IN
  IF m # 0 THEN Err(ValidationError(EnvNames[m] \o " not found"))
  ELSE Ok([n \in EnvNameSet |-> EnvGet(e, n)])

getEnvs(e) ==
  LET m == FirstMissing(e, 1) IN
  IF m # 0 THEN Err(ValidationError(EnvNames[m] \o " not found"))
  ELSE Ok([n \in EnvNameSet |-> EnvGet(e, n)])

\* ------------------------------------------------------- the OCR result
\* imageBase64?: string | null. Missing is the value that is no string
\* (undefined or null, which the code does not tell apart); a string is the
\* sequence of its characters, the data-URI head "data:image/<type>;base64,"
\* being one piece.
DataUriHead == "data:image/png;base64,"
Missing == [type |-> "missing", chars |-> <<>>]
Str(chars) == [type |-> "string", chars |-> chars]
ImagePayloads ==
  { Missing,
    Str(<<>>),
    Str(<<DataUriHead, "Q", "U", " ", "J", "D", "\n">>),
    Str(<<"Q", "*", "Q", "=">>) }

ImageId(n) == "img-" \o ToString(n)
MarkdownOf(index) == "text of page " \o ToString(index + 1)

\* The images of one document carry distinct ids and the pages the indexes
\* 0, 1, ... in document order: image n (in encounter order) is ImageId(n-1),
\* on page where[n], with payload pay[n].
PagesOf(n, where, pay) ==
  [p \in 1..n |->
    [index |-> p - 1,
     markdown |-> MarkdownOf(p - 1),
     images |->
       LET mine == SelectSeq([k \in 1..Len(where) |-> k],
                             LAMBDA k : where[k] = p) IN
       [m \in 1..Len(mine) |->
         [id |-> ImageId(mine[m] - 1), imageBase64 |-> pay[mine[m]]]]]]

NonDecreasing(f) == \A a, b \in DOMAIN f : a <= b => f[a] <= f[b]

OcrResults ==
  { PagesOf(n, w, pay) :
      <<n, w, pay>> \in
        UNION { UNION { { <<n, w, pay>> :
                            w \in { f \in [1..k -> 1..n] : NonDecreasing(f) },
                            pay \in [1..k -> ImagePayloads] } :
                        k \in 0..MaxImages } :
                n \in 0..MaxPages } }

\* ocrPageObject.flatMap((object) => object.images)
RECURSIVE flatMapImages(_)
flatMapImages(objects) ==
  IF objects = <<>> THEN <<>>
  ELSE Head(objects).images \o flatMapImages(Tail(objects))

\* --------------------------------------------------------- uploadImages
\* The test of line 169 as imageBase64 == null: "" is taken for bytes.
NoInlineBytes_MissingOnly(imageBase64) == imageBase64.type # "string"

\* !imageBase64
NoInlineBytes(imageBase64) ==
  imageBase64.type # "string" \/ imageBase64.chars = <<>>

Whitespace == {" ", "\n", "\t", "\r"}

\* .replace(/^data:image\/\w+;base64,/, "").replace(/\s+/g, "")
StripPayload(chars) ==
  LET noHead == IF chars # <<>> /\ Head(chars) = DataUriHead
                  THEN Tail(chars) ELSE chars IN
  SelectSeq(noHead, LAMBDA c : c \notin Whitespace)

Base64Alphabet ==
  <<"A", "B", "C", "D", "E", "F", "G", "H", "I", "J", "K", "L", "M", "N", "O",
    "P", "Q", "R", "S", "T", "U", "V", "W", "X", "Y", "Z", "a", "b", "c", "d",
    "e", "f", "g", "h", "i", "j", "k", "l", "m", "n", "o", "p", "q", "r", "s",
    "t", "u", "v", "w", "x", "y", "z", "0", "1", "2", "3", "4", "5", "6", "7",
    "8", "9", "+", "/">>
Base64Value(c) ==
  (CHOOSE i \in 1..Len(Base64Alphabet) : Base64Alphabet[i] = c) - 1
IsBase64Char(c) == \E i \in 1..Len(Base64Alphabet) : Base64Alphabet[i] = c

RECURSIVE DecodeGroups(_)
DecodeGroups(cs) ==
  LET v(i) == Base64Value(cs[i]) IN
  IF Len(cs) = 0 THEN <<>>
  ELSE IF Len(cs) = 2 THEN << (v(1) * 64 + v(2)) \div 16 >>
  ELSE IF Len(cs) = 3
    THEN LET n == (v(1) * 4096 + v(2) * 64 + v(3)) \div 4 IN
         << n \div 256, n % 256 >>
  ELSE LET n == v(1) * 262144 + v(2) * 4096 + v(3) * 64 + v(4) IN
       << n \div 65536, (n \div 256) % 256, n % 256 >>
         \o DecodeGroups(SubSeq(cs, 5, Len(cs)))

\* decodeBase64 (atob): up to two "=" end a text whose length is a multiple
\* of four; a length of 1 mod 4 or any other character throws.
decodeBase64(cs) ==
  LET n == Len(cs)
      pad == IF n % 4 = 0 /\ n > 0
               THEN IF cs[n] = "=" /\ cs[n - 1] = "=" THEN 2
                    ELSE IF cs[n] = "=" THEN 1 ELSE 0
               ELSE 0
      data == SubSeq(cs, 1, n - pad) IN
  IF Len(data) % 4 = 1 \/ \E i \in 1..Len(data) : ~IsBase64Char(data[i])
    THEN Thrown(TypeError("Failed to decode base64"))
    ELSE Ok(DecodeGroups(data))

\* new Date(): the local dates tried, month as getMonth() gives it (0-11).
Dates ==
  { [year |-> 2025, month |-> 0, date |-> 5],
    [year |-> 2024, month |-> 11, date |-> 31] }

\* String(n).padStart(2, "0")
padStart2(n) == IF Len(ToString(n)) < 2 THEN "0" \o ToString(n) ELSE ToString(n)

\* The date with getMonth() taken as the month, without the + 1 of line 164.
Ymd_MonthFromZero(today) ==
  ToString(today.year) \o "-" \o padStart2(today.month)
    \o "-" \o padStart2(today.date)

\* `${yyyy}-${mm}-${dd}`
Ymd(today) ==
  ToString(today.year) \o "-" \o padStart2(today.month + 1)
    \o "-" \o padStart2(today.date)

\* `paper/${ymd}/${id}.png`
ObjectKey(ymd, id) == "paper/" \o ymd \o "/" \o id \o ".png"
\* `${publicUrl}/${key}`
PublicUrl(publicUrl, key) == publicUrl \o "/" \o key

\* ----------------------------------------------------- generateMarkdown
\* images.find((u) => u.id === img.id): 0 when undefined.
find(images, id) ==
  IF \E k \in 1..Len(images) : images[k].id = id
    THEN CHOOSE k \in 1..Len(images) :
           images[k].id = id /\ \A h \in 1..(k - 1) : images[h].id # id
    ELSE 0

ImageRef(id, url) == "![" \o id \o "](" \o url \o ")"

\* The loop of line 201 run over the images from the last to the first.
RECURSIVE ImageLines_Reversed(_, _)
ImageLines_Reversed(imgs, images) ==
  IF imgs = <<>> THEN <<>>
  ELSE LET k == find(images, Head(imgs).id) IN
       ImageLines_Reversed(Tail(imgs), images)
         \o (IF k = 0 THEN <<>>
             ELSE <<ImageRef(Head(imgs).id, images[k].url), "">>)

RECURSIVE ImageLines(_, _)
ImageLines(imgs, images) ==
  IF imgs = <<>> THEN <<>>
  ELSE LET k == find(images, Head(imgs).id) IN
       (IF k = 0 THEN <<>> ELSE <<ImageRef(Head(imgs).id, images[k].url), "">>)
         \o ImageLines(Tail(imgs), images)

\* The lines of one page: lines 196-206.
PageLines(object, images) ==
  <<"# Page " \o ToString(object.index + 1), "", object.markdown, "">>
    \o ImageLines(object.images, images)

\* lines.join("\n") as a text.
RECURSIVE join(_)
join(lines) ==
  IF lines = <<>> THEN <<>>
  ELSE (IF Head(lines) = "" THEN <<>> ELSE <<Head(lines)>>)
         \o (IF Len(lines) > 1 THEN <<"\n">> \o join(Tail(lines)) ELSE <<>>)

\* join(outDir, name)
joinPath(dir, name) == dir \o "/" \o name
\* The file name of line 207 with the index as it is, without the + 1.
PageFileName_FromZero(index) == "page-" \o ToString(index) \o ".md"
PageFileName(index) == "page-" \o ToString(index + 1) \o ".md"
AllPagesName == "all-pages.md"

\* ------------------------------------------------------------ the state
VARIABLES
  args,          \* Deno.args
  pathKind,      \* what Deno.statSync finds at each path
  env,           \* Deno.env
  pc,            \* where main is
  cli,           \* main: cli
  envs,          \* main: envs
  ocrResult,     \* main: ocrResult (its value is ocrPageObject)
  imageUploadResult, \* main: imageUploadResult (its value is imageMap)
  ymd,           \* uploadImages: ymd
  uploaded,      \* uploadImages: uploaded
  imgPos,        \* uploadImages: position of the for loop in images
  pagePos,       \* generateMarkdown: position of the for loop in objects
  combinedLines, \* generateMarkdown: combinedLines
  files,         \* the files written under outDir: path -> text
  bucket,        \* the objects stored: key -> [body, contentType, acl]
  netLog,        \* every network call issued, in order
  writeLog,      \* every Deno.writeTextFile call issued, in order
  trace,         \* the stages main has started, in order
  returned,      \* how each started stage ended: "ok", "err" or "throw"
  result,        \* what main() resolved or rejected with
  exitCode,      \* the exit code of the process
  stderr         \* what was printed to the error stream

vars ==
  <<args, pathKind, env, pc, cli, envs, ocrResult, imageUploadResult, ymd,
    uploaded,
    imgPos, pagePos, combinedLines, files, bucket, netLog, writeLog, trace,
    returned, result, exitCode, stderr>>

inputs == <<args, pathKind, env>>
mainLocals == <<cli, envs, ocrResult, imageUploadResult>>
uploadLocals == <<ymd, uploaded, imgPos>>
markdownLocals == <<pagePos, combinedLines>>
world == <<files, bucket, netLog, writeLog>>
process == <<exitCode, stderr>>

NoFiles == [f \in {} |-> <<>>]

Init ==
  /\ args \in ArgVectors
  /\ pathKind \in [Paths -> PathKinds]
  /\ env \in Environments
  /\ pc = "getCliArgs"
  /\ cli = None /\ envs = None /\ ocrResult = None
  /\ imageUploadResult = None
  /\ ymd = "" /\ uploaded = <<>> /\ imgPos = 0
  /\ pagePos = 0 /\ combinedLines = <<>>
  /\ files = NoFiles /\ bucket = NoFiles /\ netLog = <<>> /\ writeLog = <<>>
  /\ trace = <<>> /\ returned = <<>>
  /\ result = None /\ exitCode = -1 /\ stderr = <<>>

\* ------------------------------------------------------------------ main
\* main without its early returns: it goes on whatever the stage returned.
AfterStage_NoShortCircuit(r, next) == next

\* if (r.isErr()) return err(r.error): where main goes after a stage.
AfterStage(r, next) == IF r.tag = "ok" THEN next ELSE "mainReturned"

\* A stage ended with r: main goes on to next or returns r's error.
StageEnds(r, next) ==
  /\ returned' = Append(returned, r.tag)
  /\ pc' = AfterStage(r, next)
  /\ result' = IF r.tag = "ok" THEN result ELSE r

\* lines 220-222
GetCliArgs ==
  /\ pc = "getCliArgs"
  /\ trace' = Append(trace, "getCliArgs")
  /\ LET r == getCliArgs(args, pathKind) IN
       /\ cli' = r
       /\ StageEnds(r, "getEnvs")
  /\ UNCHANGED <<inputs, envs, ocrResult, imageUploadResult, uploadLocals,
                 markdownLocals, world, process>>

\* lines 225-227
GetEnvs ==
  /\ pc = "getEnvs"
  /\ trace' = Append(trace, "getEnvs")
  /\ LET r == getEnvs(env) IN
       /\ envs' = r
       /\ StageEnds(r, "ensureDir")
  /\ UNCHANGED <<inputs, cli, ocrResult, imageUploadResult, uploadLocals,
                 markdownLocals, world, process>>

\* lines 230-234: ensureDir(outDir) finds the directory or rejects.
EnsureDir ==
  /\ pc = "ensureDir"
  /\ trace' = Append(trace, "ensureDir")
  /\ \E done \in BOOLEAN :
       StageEnds(IF done THEN Ok(cli.value.outDir)
                 ELSE Err(SystemError("failed to create the directory")),
                 "processOcr")
  /\ UNCHANGED <<inputs, mainLocals, uploadLocals, markdownLocals, world,
                 process>>

\* ------------------------------------------------------------ processOcr
OcrFailed == Err(SystemError("OCR processing failed"))
Call(service, op) == [service |-> service, op |-> op, key |-> "", done |-> TRUE]

\* lines 118-121: Deno.readFile(pdfPath)
OcrReadFile ==
  /\ pc = "processOcr"
  /\ trace' = Append(trace, "processOcr")
  /\ \E done \in BOOLEAN :
       IF done
         THEN pc' = "ocrUpload" /\ UNCHANGED <<returned, result, ocrResult>>
         ELSE ocrResult' = OcrFailed /\ StageEnds(OcrFailed, "")
  /\ UNCHANGED <<inputs, cli, envs, imageUploadResult, uploadLocals,
                 markdownLocals, world, process>>

\* One call of the Mistral client: it resolves, or it rejects and
\* processOcr ends with the one SystemError.
OcrCall(at, op, next) ==
  /\ pc = at
  /\ \E done \in BOOLEAN :
       /\ netLog' = Append(netLog, [Call("mistral", op) EXCEPT !.done = done])
       /\ IF done
            THEN pc' = next /\ UNCHANGED <<returned, result, ocrResult>>
            ELSE ocrResult' = OcrFailed /\ StageEnds(OcrFailed, "")
  /\ UNCHANGED <<inputs, cli, envs, imageUploadResult, uploadLocals,
                 markdownLocals, files, bucket, writeLog, trace, process>>

\* line 123
OcrUpload == OcrCall("ocrUpload", "files.upload", "ocrSignedUrl")
\* line 124
OcrGetSignedUrl == OcrCall("ocrSignedUrl", "files.getSignedUrl", "ocrProcess")

\* lines 126-131 and 238-239: the service answers with the pages.
OcrProcess ==
  /\ pc = "ocrProcess"
  /\ \/ /\ netLog' = Append(netLog, [Call("mistral", "ocr.process")
                                       EXCEPT !.done = FALSE])
        /\ ocrResult' = OcrFailed
        /\ StageEnds(OcrFailed, "")
     \/ \E pages \in OcrResults :
          /\ netLog' = Append(netLog, Call("mistral", "ocr.process"))
          /\ ocrResult' = Ok(pages)
          /\ StageEnds(Ok(pages), "uploadImages")
  /\ UNCHANGED <<inputs, cli, envs, imageUploadResult, uploadLocals,
                 markdownLocals, files, bucket, writeLog, trace, process>>

\* ---------------------------------------------------------- uploadImages
\* lines 152-167 and 248: the client, the date of the run, the empty list.
UploadImagesBegin ==
  /\ pc = "uploadImages"
  /\ trace' = Append(trace, "uploadImages")
  /\ \E today \in Dates : ymd' = Ymd(today)
  /\ uploaded' = <<>>
  /\ imgPos' = 1
  /\ pc' = "uploadLoop"
  /\ UNCHANGED <<inputs, mainLocals, markdownLocals, world, returned, result,
                 process>>

UploadFailed(cause) ==
  Err(SystemError("failed to upload the images: " \o cause))

\* A rejected PutObject swallowed: the loop goes on to the next image.
UploadRejects_SkipsImage(cause) ==
  /\ imgPos' = imgPos + 1
  /\ UNCHANGED <<pc, uploaded, imageUploadResult, returned, result>>

\* The promise of uploadImages rejects: line 186, then line 250.
UploadRejects(cause) ==
  /\ imageUploadResult' = UploadFailed(cause)
  /\ StageEnds(UploadFailed(cause), "")
  /\ UNCHANGED <<uploaded, imgPos>>

\* lines 168-183: one turn of the loop over images.
UploadImage ==
  /\ pc = "uploadLoop"
  /\ imgPos <= Len(flatMapImages(ocrResult.value))
  /\ LET img == flatMapImages(ocrResult.value)[imgPos]
         body == decodeBase64(StripPayload(img.imageBase64.chars))
         key == ObjectKey(ymd, img.id)
         put == [service |-> "s3", op |-> "PutObject", key |-> key,
                 done |-> TRUE] IN
       IF NoInlineBytes(img.imageBase64)
         THEN /\ imgPos' = imgPos + 1
              /\ UNCHANGED <<pc, uploaded, imageUploadResult, returned, result,
                             bucket, netLog>>
       ELSE IF body.tag = "throw"
         THEN /\ UploadRejects(body.error.name)
              /\ UNCHANGED <<bucket, netLog>>
       ELSE \/ /\ netLog' = Append(netLog, put)
               /\ bucket' =
                    (key :> [body |-> body.value, contentType |-> "image/png",
                             acl |-> "public-read"]) @@ bucket
               /\ uploaded' =
                    Append(uploaded,
                           [id |-> img.id,
                            url |-> PublicUrl(envs.value["R2_PUBLIC_URL"], key)])
               /\ imgPos' = imgPos + 1
               /\ UNCHANGED <<pc, imageUploadResult, returned, result>>
            \/ /\ netLog' = Append(netLog, [put EXCEPT !.done = FALSE])
               /\ UploadRejects("PutObject failed")
               /\ UNCHANGED bucket
  /\ UNCHANGED <<inputs, cli, envs, ocrResult, ymd, markdownLocals, files,
                 writeLog, trace, process>>

\* lines 184 and 250-251: return uploaded.
UploadImagesReturn ==
  /\ pc = "uploadLoop"
  /\ imgPos > Len(flatMapImages(ocrResult.value))
  /\ imageUploadResult' = Ok(uploaded)
  /\ StageEnds(Ok(uploaded), "generateMarkdown")
  /\ UNCHANGED <<inputs, cli, envs, ocrResult, uploadLocals, markdownLocals,
                 world, trace, process>>

\* ------------------------------------------------------ generateMarkdown
\* lines 191-194 and 254
GenerateMarkdownBegin ==
  /\ pc = "generateMarkdown"
  /\ trace' = Append(trace, "generateMarkdown")
  /\ pagePos' = 1
  /\ combinedLines' = <<>>
  /\ pc' = "markdownLoop"
  /\ UNCHANGED <<inputs, mainLocals, uploadLocals, world, returned, result,
                 process>>

MarkdownFailed ==
  Err(SystemError("failed to generate the markdown: write failed"))

\* A rejected write swallowed: the loop goes on to the next write.
WriteRejects_GoesOn(path, text) ==
  /\ writeLog' = Append(writeLog, [path |-> path, text |-> text, done |-> FALSE])
  /\ UNCHANGED files
  /\ IF pagePos > Len(ocrResult.value)
       THEN /\ returned' = Append(returned, "ok")
            /\ pc' = "mainReturned"
            /\ result' = Ok("void")
            /\ UNCHANGED <<pagePos, combinedLines>>
       ELSE /\ pagePos' = pagePos + 1
            /\ UNCHANGED <<combinedLines, pc, returned, result>>

\* Deno.writeTextFile(path, text) rejects: nothing is written, or the file
\* is left created and empty. Then line 214 and line 255.
WriteRejects(path, text) ==
  /\ writeLog' = Append(writeLog, [path |-> path, text |-> text, done |-> FALSE])
  /\ \/ UNCHANGED files
     \/ files' = (path :> <<>>) @@ files
  /\ StageEnds(MarkdownFailed, "")
  /\ UNCHANGED <<pagePos, combinedLines>>

\* lines 195-210: one turn of the loop over objects.
WritePage ==
  /\ pc = "markdownLoop"
  /\ pagePos <= Len(ocrResult.value)
  /\ LET object == ocrResult.value[pagePos]
         lines == PageLines(object, imageUploadResult.value)
         filePath == joinPath(cli.value.outDir, PageFileName(object.index)) IN
       \/ /\ files' = (filePath :> join(lines)) @@ files
          /\ writeLog' = Append(writeLog, [path |-> filePath,
                                           text |-> join(lines), done |-> TRUE])
          /\ combinedLines' = combinedLines \o lines \o <<"">>
          /\ pagePos' = pagePos + 1
          /\ UNCHANGED <<pc, returned, result>>
       \/ WriteRejects(filePath, join(lines))
  /\ UNCHANGED <<inputs, mainLocals, uploadLocals, bucket, netLog, trace,
                 process>>

\* lines 211-212 and 255-257: the combined file, then main returns ok().
WriteAllPages ==
  /\ pc = "markdownLoop"
  /\ pagePos > Len(ocrResult.value)
  /\ LET combinedPath == joinPath(cli.value.outDir, AllPagesName) IN
       \/ /\ files' = (combinedPath :> join(combinedLines)) @@ files
          /\ writeLog' = Append(writeLog, [path |-> combinedPath,
                                           text |-> join(combinedLines),
                                           done |-> TRUE])
          /\ returned' = Append(returned, "ok")
          /\ pc' = "mainReturned"
          /\ result' = Ok("void")
          /\ UNCHANGED <<pagePos, combinedLines>>
       \/ WriteRejects(combinedPath, join(combinedLines))
  /\ UNCHANGED <<inputs, mainLocals, uploadLocals, bucket, netLog, trace,
                 process>>

\* ------------------------------------------------------ the process ends
\* lines 260-269: result.match prints the error and exits with 1; a rejected
\* main() is an uncaught error, which Deno prints and exits with 1.
Exit ==
  /\ pc = "mainReturned"
  /\ pc' = "exited"
  /\ IF result.tag = "ok"
       THEN exitCode' = 0 /\ UNCHANGED stderr
       ELSE exitCode' = 1 /\ stderr' = Append(stderr, result.error)
  /\ UNCHANGED <<inputs, mainLocals, uploadLocals, markdownLocals, world,
                 trace, returned, result>>

Next ==
  \/ GetCliArgs
  \/ GetEnvs
  \/ EnsureDir
  \/ OcrReadFile
  \/ OcrUpload
  \/ OcrGetSignedUrl
  \/ OcrProcess
  \/ UploadImagesBegin
  \/ UploadImage
  \/ UploadImagesReturn
  \/ GenerateMarkdownBegin
  \/ WritePage
  \/ WriteAllPages
  \/ Exit

Spec == Init /\ [][Next]_vars

\* ================================================================ claims
\* What the claims speak of, written out without the operators of the model.
StageOrder ==
  <<"getCliArgs", "getEnvs", "ensureDir", "processOcr", "uploadImages",
    "generateMarkdown">>
MainIsOver == pc \in {"mainReturned", "exited"}
ErrorKinds == {"ValidationError", "NotFoundError", "SystemError"}
DateTexts == {"2025-01-05", "2024-12-31"}
PagePath(p) == "out/page-" \o ToString(p) \o ".md"
AllPagesPath == "out/all-pages.md"
Pages == IF ocrResult.tag = "ok" THEN ocrResult.value ELSE <<>>
Images == flatMapImages(Pages)
HasNoBytes(img) == img.imageBase64 \in {Missing, Str(<<>>)}
FailedPuts ==
  {k \in 1..Len(netLog) : netLog[k].op = "PutObject" /\ ~netLog[k].done}
FailedWrites == {w \in 1..Len(writeLog) : ~writeLog[w].done}
BothPathsGiven ==
  args \in {<<"-i", InPath, "-o", OutPath>>,
            <<"--outDir", OutPath, "--input", InPath>>}
MissingConfiguration == \E n \in EnvNameSet : env[n] # "set"

\* C1: the stages start in the fixed order getCliArgs, getEnvs, ensureDir,
\* processOcr, uploadImages, generateMarkdown, each at most once, and a stage
\* has started only if every stage before it returned success; so after a
\* stage that returned an error no stage is started.
C1_StagesRunInOrder ==
  /\ Len(trace) <= Len(StageOrder)
  /\ trace = SubSeq(StageOrder, 1, Len(trace))
  /\ Len(returned) \in {Len(trace) - 1, Len(trace)}
  /\ \A i \in 1..Len(returned) : i < Len(trace) => returned[i] = "ok"

\* OCR failed: three stages returned success, the fourth an error, and the
\* process ended with no fifth stage.
C1_Witness ==
  /\ pc = "exited"
  /\ trace = SubSeq(StageOrder, 1, 4)
  /\ returned = <<"ok", "ok", "ok", "err">>

\* C2: a run whose result is a ValidationError has issued no network call,
\* and a run with a path of the wrong kind or a missing configuration value
\* never issues one and, once the arguments are accepted, ends with a
\* ValidationError.
C2_ValidationErrorBeforeNetwork ==
  /\ (result.tag = "err" /\ result.error.name = "ValidationError")
       => netLog = <<>> /\ DOMAIN bucket = {}
  /\ (pathKind[InPath] # "file" \/ pathKind[OutPath] # "dir"
        \/ MissingConfiguration)
       => netLog = <<>> /\ DOMAIN bucket = {}
  /\ (cli.tag = "ok" /\ MissingConfiguration /\ MainIsOver)
       => result.tag = "err" /\ result.error.name = "ValidationError"

\* Only MISTRAL_OCR_API_KEY is missing, and the run ended with the
\* ValidationError that names it.
C2_Witness ==
  /\ pc = "exited"
  /\ cli.tag = "ok"
  /\ env["MISTRAL_OCR_API_KEY"] = Undefined
  /\ \A n \in EnvNameSet \ {"MISTRAL_OCR_API_KEY"} : env[n] = "set"
  /\ result.tag = "err"
  /\ result.error.message = "ValidationError: MISTRAL_OCR_API_KEY not found"
  /\ netLog = <<>>

\* C8: every invocation that has ended ended either with success and exit
\* code 0, or with exit code 1 and one printed error that main returned and
\* that is a ValidationError, a NotFoundError or a SystemError; malformed
\* command lines included.
C8_SingleTerminalOutcome ==
  pc = "exited" =>
    \/ result.tag = "ok" /\ exitCode = 0 /\ stderr = <<>>
    \/ /\ result.tag = "err"
       /\ exitCode = 1
       /\ result.error.name \in ErrorKinds
       /\ stderr = <<result.error>>

\* C9: with both paths given, getCliArgs succeeds exactly when the input is a
\* regular file and the output a directory, and otherwise returns the
\* ValidationError naming the first violated condition; it touches neither
\* the output directory, nor the network, nor the bucket.
C9_InputValidator ==
  (cli.tag # "none" /\ BothPathsGiven) =>
    LET i == pathKind[InPath]
        o == pathKind[OutPath] IN
    /\ cli.tag = "ok" <=> (i = "file" /\ o = "dir")
    /\ cli.tag = "ok" => cli.value = [input |-> InPath, outDir |-> OutPath]
    /\ cli.tag # "ok" =>
         /\ cli.tag = "err"
         /\ cli.error.name = "ValidationError"
         /\ cli.error.message =
              CASE i = "missing" -> "ValidationError: args.input does not exist"
                [] i = "dir" -> "ValidationError: args.input is not a file"
                [] i = "file" /\ o = "missing" ->
                     "ValidationError: args.outDir does not exist"
                [] i = "file" /\ o = "file" ->
                     "ValidationError: args.outDir is not a directory"
         /\ result = cli
         /\ DOMAIN files = {} /\ writeLog = <<>> /\ netLog = <<>>
         /\ DOMAIN bucket = {}
    /\ Len(trace) = 1 =>
         /\ DOMAIN files = {} /\ writeLog = <<>> /\ netLog = <<>>
         /\ DOMAIN bucket = {}

\* The input is a regular file and so is the output path: the run ended
\* with "args.outDir is not a directory".
C9_Witness ==
  /\ pc = "exited"
  /\ BothPathsGiven
  /\ pathKind[InPath] = "file"
  /\ pathKind[OutPath] = "file"
  /\ cli.tag = "err"

\* The key and the url of image id on the day d of the run, and the
\* reference to it.
KeyOn(d, id) == "paper/" \o d \o "/" \o id \o ".png"
UrlOn(d, id) == "https://cdn.example/" \o KeyOn(d, id)
RefTexts(id) ==
  {"![" \o id \o "](" \o url \o ")" : url \in {UrlOn(d, id) : d \in DateTexts}}
    \cup {"![" \o id \o "]()", "![" \o id \o "](undefined)"}
PageWritten(p) ==
  \E w \in 1..Len(writeLog) :
    writeLog[w].path = PagePath(p) /\ writeLog[w].done
OnPage(p, id) == \E m \in 1..Len(Pages[p].images) : Pages[p].images[m].id = id

\* C3: once a PutObject has failed, it is the only failed one and the last
\* network call (no later image is uploaded), uploadImages has returned a
\* SystemError and no mapping, main has returned that error, the process
\* exits with it, the objects stored before are still in the bucket,
\* generateMarkdown was never started and no file was written.
C3_UploadFailureAbortsRun ==
  FailedPuts # {} =>
    /\ FailedPuts = {Len(netLog)}
    /\ imageUploadResult.tag = "err"
    /\ imageUploadResult.error.name = "SystemError"
    /\ result = imageUploadResult
    /\ MainIsOver
    /\ pc = "exited" => exitCode = 1 /\ stderr = <<imageUploadResult.error>>
    /\ trace[Len(trace)] = "uploadImages"
    /\ writeLog = <<>>
    /\ DOMAIN files = {}
    /\ \A k \in 1..Len(netLog) :
         (netLog[k].op = "PutObject" /\ netLog[k].done)
           => netLog[k].key \in DOMAIN bucket
    /\ Cardinality(DOMAIN bucket) = Len(uploaded)

\* Three images with bytes, the upload of the second failed: the first is
\* in the bucket, the third was never sent, the run is over.
C3_Witness ==
  /\ pc = "exited"
  /\ Len(Images) = 3
  /\ \A k \in 1..3 : Images[k].imageBase64.chars # <<>>
  /\ imgPos = 2
  /\ FailedPuts = {Len(netLog)}
  /\ netLog[Len(netLog)].key \in {KeyOn(d, "img-1") : d \in DateTexts}
  /\ netLog[Len(netLog) - 1].key \in {KeyOn(d, "img-0") : d \in DateTexts}
  /\ Cardinality(DOMAIN bucket) = 1

\* C4: an image without inline bytes is in no mapping, causes no PutObject
\* and no stored object, is never the image at which uploadImages fails,
\* and no written file holds a reference to it.
C4_ImagesWithoutBytesAreSkipped ==
  LET images == Images
      pieces == UNION {{files[f][q] : q \in 1..Len(files[f])} : f \in DOMAIN files}
      sent == {netLog[c].key : c \in 1..Len(netLog)} \cup DOMAIN bucket
      mapped == {uploaded[u].id : u \in 1..Len(uploaded)}
                  \cup (IF imageUploadResult.tag = "ok"
                          THEN {imageUploadResult.value[u].id :
                                  u \in 1..Len(imageUploadResult.value)}
                          ELSE {}) IN
  \A k \in 1..Len(images) :
    HasNoBytes(images[k]) =>
      LET id == images[k].id IN
      /\ id \notin mapped
      /\ sent \cap {KeyOn(d, id) : d \in DateTexts} = {}
      /\ imageUploadResult.tag = "err" => imgPos # k
      /\ pieces \cap RefTexts(id) = {}

\* A finished, successful run over images with bytes, without bytes (one
\* missing, one empty) on a page that was written.
C4_Witness ==
  /\ pc = "exited"
  /\ result.tag = "ok"
  /\ Len(Images) = 3
  /\ Images[1].imageBase64 = Missing
  /\ Images[2].imageBase64.chars # <<>>
  /\ Images[3].imageBase64 = Str(<<>>)
  /\ Len(imageUploadResult.value) = 1

\* C5: when uploadImages succeeds there is one day d of the run such that
\* each image with bytes has exactly one entry in the mapping, with the url
\* <publicBaseUrl>/paper/<d>/<id>.png, and the written file of its page holds
\* exactly one reference ![<id>](<that url>) to it.
C5_ImagesWithBytesArePublishedOnce ==
  imageUploadResult.tag = "ok" =>
    LET map == imageUploadResult.value IN
    \E d \in DateTexts :
      \A k \in 1..Len(Images) :
        ~HasNoBytes(Images[k]) =>
          LET id == Images[k].id
              url == UrlOn(d, id)
              ref == "![" \o id \o "](" \o url \o ")" IN
          /\ Cardinality({u \in 1..Len(map) : map[u].id = id}) = 1
          /\ \A u \in 1..Len(map) : map[u].id = id => map[u].url = url
          /\ KeyOn(d, id) \in DOMAIN bucket
          /\ \A p \in 1..Len(Pages) :
               (OnPage(p, id) /\ PageWritten(p)) =>
                 LET file == files[PagePath(p)] IN
                 Cardinality({q \in 1..Len(file) : file[q] = ref}) = 1

\* A finished run on 5 January 2025 with two published images, the first
\* referenced in page-1.md by its url.
C5_Witness ==
  /\ pc = "exited"
  /\ result.tag = "ok"
  /\ imageUploadResult.value =
       << [id |-> "img-0",
           url |-> "https://cdn.example/paper/2025-01-05/img-0.png"],
          [id |-> "img-1",
           url |-> "https://cdn.example/paper/2025-01-05/img-1.png"] >>
  /\ \E q \in 1..Len(files[PagePath(1)]) :
       files[PagePath(1)][q] =
         "![img-0](https://cdn.example/paper/2025-01-05/img-0.png)"

\* all-pages.md as the page files give it: each page's text, a newline, and
\* a second newline between two pages.
RECURSIVE AllPagesFrom(_)
AllPagesFrom(p) ==
  IF p > Len(Pages) THEN <<>>
  ELSE files[PagePath(p)] \o <<"\n">>
         \o (IF p < Len(Pages) THEN <<"\n">> ELSE <<>>) \o AllPagesFrom(p + 1)

\* C6: after a successful generateMarkdown the files written are
\* page-<index+1>.md for each page, one write each, and all-pages.md, which
\* holds the texts of the page files in index order.
C6_OnePageFilePerPage ==
  result.tag = "ok" =>
    /\ DOMAIN files = {PagePath(p) : p \in 1..Len(Pages)} \cup {AllPagesPath}
    /\ Len(writeLog) = Len(Pages) + 1
    /\ \A p \in 1..Len(Pages) :
         /\ writeLog[p].path = PagePath(Pages[p].index + 1)
         /\ files[PagePath(p)][1] = "# Page " \o ToString(Pages[p].index + 1)
         /\ \E q \in 1..Len(files[PagePath(p)]) :
              files[PagePath(p)][q] = Pages[p].markdown
    /\ \A p, q \in 1..Len(Pages) : p < q => Pages[p].index < Pages[q].index
    /\ files[AllPagesPath] = AllPagesFrom(1)

\* A finished run over two pages with an image on each.
C6_Witness ==
  /\ pc = "exited"
  /\ result.tag = "ok"
  /\ Len(Pages) = 2
  /\ Len(Pages[1].images) = 1
  /\ Len(Pages[2].images) = 1
  /\ Len(imageUploadResult.value) = 2
  /\ Len(files[AllPagesPath]) > Len(files[PagePath(1)]) + Len(files[PagePath(2)])

\* C7: once a write has failed, it is the only failed one and the last write
\* issued, every file written before it still holds what was written, no
\* file of a later page exists, all-pages.md does not exist when the failed
\* write was a page's, and main has returned one SystemError, with which the
\* process exits.
C7_WriteFailureAbortsRemainingWrites ==
  FailedWrites # {} =>
    LET k == Len(writeLog) IN
    /\ FailedWrites = {k}
    /\ MainIsOver
    /\ result.tag = "err"
    /\ result.error.name = "SystemError"
    /\ pc = "exited" => exitCode = 1 /\ stderr = <<result.error>>
    /\ \A w \in 1..(k - 1) :
         /\ writeLog[w].path \in DOMAIN files
         /\ files[writeLog[w].path] = writeLog[w].text
         /\ writeLog[w].text # <<>>
    /\ \A p \in (k + 1)..Len(Pages) : PagePath(p) \notin DOMAIN files
    /\ writeLog[k].path # AllPagesPath => AllPagesPath \notin DOMAIN files
    /\ DOMAIN files \subseteq {writeLog[w].path : w \in 1..k}

\* Two pages, the write of page-2.md failed after page-1.md was written.
C7_Witness ==
  /\ pc = "exited"
  /\ Len(Pages) = 2
  /\ Len(writeLog) = 2
  /\ writeLog[1].done
  /\ ~writeLog[2].done
  /\ writeLog[2].path = PagePath(2)
  /\ PagePath(1) \in DOMAIN files

\* The references of a page, as the OCR result and the mapping give them:
\* one for each image of the page, in the order of the page, whose id the
\* mapping holds.
RefsOfPage(p) ==
  LET map == imageUploadResult.value
      kept == SelectSeq(Pages[p].images,
                LAMBDA im : \E u \in 1..Len(map) : map[u].id = im.id) IN
  [m \in 1..Len(kept) |->
    "![" \o kept[m].id \o "]("
      \o map[CHOOSE u \in 1..Len(map) : map[u].id = kept[m].id].url \o ")"]
RECURSIVE RefsFrom(_)
RefsFrom(p) ==
  IF p > Len(Pages) THEN <<>> ELSE RefsOfPage(p) \o RefsFrom(p + 1)
\* The pieces of a text that are neither newlines, nor headings, nor OCR text.
OtherPieces(text) ==
  LET known == {"\n"} \cup {"# Page " \o ToString(p) : p \in 1..Len(Pages)}
                 \cup {Pages[p].markdown : p \in 1..Len(Pages)} IN
  SelectSeq(text, LAMBDA piece : piece \notin known)

\* C10: in each written page file the pieces besides heading and OCR text
\* are exactly the references of the page's images that are in the mapping,
\* in the order of the page's image list, all after the OCR text; and so
\* they are, page after page, in all-pages.md.
C10_ImageOrderPreserved ==
  /\ \A p \in 1..Len(Pages) :
       PageWritten(p) =>
         LET file == files[PagePath(p)]
             refs == RefsOfPage(p)
             refSet == {refs[m] : m \in 1..Len(refs)}
             textAt == {q \in 1..Len(file) : file[q] = Pages[p].markdown}
             refAt == {r \in 1..Len(file) : file[r] \in refSet} IN
         /\ OtherPieces(file) = refs
         /\ \A q \in textAt : \A r \in refAt : q < r
  /\ result.tag = "ok" => OtherPieces(files[AllPagesPath]) = RefsFrom(1)

\* A finished run over a page whose images are: with bytes, without, with
\* bytes; the file holds the two references, img-0 before img-2.
C10_Witness ==
  /\ pc = "exited"
  /\ result.tag = "ok"
  /\ Len(Pages) >= 1
  /\ Len(Pages[1].images) = 3
  /\ Pages[1].images[1].imageBase64.chars # <<>>
  /\ Pages[1].images[2].imageBase64 = Missing
  /\ Pages[1].images[3].imageBase64.chars # <<>>
  /\ Len(RefsOfPage(1)) = 2

====
